---- MODULE Spec2Model ----
(***************************************************************************)
(* The address store (cities, corpuses, main records), the name-based      *)
(* record creation and the import-and-reconciliation run of                *)
(* app/routers/main_records.py, over the SQLAlchemy session configured in  *)
(* app/db.py (autocommit off, autoflush off) and the constraints declared  *)
(* in app/models.py.                                                       *)
(*                                                                         *)
(* Text values are sequences of one-character strings, so that str.strip   *)
(* is computed and not assumed.  Python's None is the one-element sequence *)
(* <<"None">> for text and 0 for integers (no id 0 is ever drawn).         *)
(***************************************************************************)
EXTENDS Integers, Sequences, FiniteSets, TLC

\* ------------------------------------------------------------------ bounds
\* Longest list of source records the upstream returns in one run.
MaxBatch == 2
\* Requests served from the empty store.
MaxRequests == 2
\* Last value the id sequences of cities and corpuses may hand out.
MaxSeq == 2
\* Requests the workers serving at once begin in one behaviour.
MaxBegun == 3

\* ------------------------------------------------------- python values
None == <<"None">>
NoInt == 0
\* warnings[:20] of the returned summary
WarningCap == 20

IsSpace(c) == c = " "

RECURSIVE LStrip(_)
LStrip(s) ==
    IF s # <<>> /\ IsSpace(Head(s)) THEN LStrip(Tail(s)) ELSE s

RECURSIVE RStrip(_)
RStrip(s) ==
    IF s # <<>> /\ IsSpace(s[Len(s)]) THEN RStrip(SubSeq(s, 1, Len(s) - 1)) ELSE s

\* str.strip()
strip(s) == RStrip(LStrip(s))

\* (x or ""): None and "" are both falsy
OrEmpty(x) == IF x = None \/ x = <<>> THEN <<>> ELSE x

\* (x or None)
OrNone(x) == IF x = <<>> THEN None ELSE x

\* a or b on optional text
OrElse(a, b) == IF a = None \/ a = <<>> THEN b ELSE a

\* ------------------------------------------------------------- domains
CityNames == {<<"X">>, <<"Y">>}
CorpusNames == {<<"K">>}
Streets == {<<"a">>, <<"b">>}
HouseNums == {None, <<>>, <<"1">>}
RecordIds == {1, 2}

\* What the upstream may put in one source record (the keys read at
\* app/routers/main_records.py:409-423).  WellFormed records carry every key;
\* each other set departs from BaseItem in the keys it names.
BaseItem ==
    [id |-> 1, pk |-> NoInt, street |-> <<"a">>, s_number |-> <<"1">>,
     city |-> <<"X">>, s_liter |-> <<"K">>]
WellFormed ==
    [id : {1, 2}, pk : {NoInt}, street : {<<"a">>, <<"b", " ">>},
     s_number : {None, <<"1">>}, city : {<<"X">>}, s_liter : {<<"K">>}]
OtherCity == {[BaseItem EXCEPT !.id = 2, !.city = <<" ", "Y">>]}
IdFromPk == {[BaseItem EXCEPT !.id = NoInt, !.pk = k] : k \in {NoInt, 2}}
BlankStreet == {[BaseItem EXCEPT !.id = i, !.street = t] : i \in {1, 2}, t \in {None, <<" ">>}}
BlankNumber == {[BaseItem EXCEPT !.id = i, !.s_number = <<" ">>] : i \in {1, 2}}
NoNames == {[BaseItem EXCEPT !.city = None], [BaseItem EXCEPT !.s_liter = None],
            [BaseItem EXCEPT !.city = <<" ">>]}

Items ==
    WellFormed \cup OtherCity \cup IdFromPk \cup BlankStreet \cup BlankNumber \cup NoNames

\* ImportHomesIn after validation: names are stripped and non-empty, or absent
ImportPayloads ==
    {[city_name |-> None, corpus_name |-> None],
     [city_name |-> <<"Y">>, corpus_name |-> None],
     [city_name |-> <<"X">>, corpus_name |-> <<"K">>]}

\* ------------------------------------------------------------- state
VARIABLES
    cities,             \* committed rows of table cities: [id, name]
    corpuses,           \* committed rows of table corpuses: [id, city_id, name]
    main,               \* committed rows of table main
    cities_id_seq,      \* last value of the serial behind cities.id
    corpuses_id_seq,    \* last value of the serial behind corpuses.id
    pc,                 \* "idle" | "loop" | "closing"
    payload,            \* the import request's payload
    total_source,       \* len(results)
    idx,                \* source records processed so far
    imported, updated, unchanged, skipped,
    warnings,           \* the run's warning list
    cache,              \* (city_name, corpus_name) -> (city_id, corpus_id)
    tx,                 \* the rows the open transaction sees: committed + flushed
    new,                \* session.new: pending MainRecord objects, in add order
    dirty,              \* modified persistent objects: [key: identity, obj: in-memory state]
    response,           \* what the request answers
    served,             \* requests started so far
    upstream,           \* what the upstream call of the running import did
    workers,            \* the requests served at once, each with its own session
    begun               \* requests the workers have begun so far

vars ==
    <<cities, corpuses, main, cities_id_seq, corpuses_id_seq, pc, payload,
      total_source, idx, imported, updated, unchanged, skipped, warnings, cache,
      tx, new, dirty, response, served, upstream, workers, begun>>

NoResponse == [op |-> "none", status |-> 0]
NoPayload == [city_name |-> None, corpus_name |-> None]
EmptyTx == [cities |-> {}, corpuses |-> {}, main |-> {}]

\* ------------------------------------------------- the store's constraints
\* ByNaturalKey with house_num = NULL written as an equality: no row matches.
ByNaturalKey_SqlEquals(rows, corpus_id, street, house_num) ==
    {r \in rows : /\ r.corpus_id = corpus_id /\ r.street = street
                  /\ house_num # None /\ r.house_num = house_num}

\* The rows of a SELECT ... WHERE corpus_id = .. AND street = .. AND house_num
\* = .. / IS NULL (None stands for NULL, so equality on it is the IS NULL test).
ByNaturalKey(rows, corpus_id, street, house_num) ==
    {r \in rows : r.corpus_id = corpus_id /\ r.street = street /\ r.house_num = house_num}

\* Whether row o may not join rows: the primary key, uq_main_corpus_street_house
\* (a UNIQUE constraint never matches rows whose house_num is NULL) and
\* chk_main_street_nonempty.
Violates(rows, o) ==
    \/ \E r \in rows : r.id = o.id
    \/ /\ o.house_num # None
       /\ ByNaturalKey(rows, o.corpus_id, o.street, o.house_num) # {}
    \/ strip(o.street) = <<>>

\* ------------------------------------------------- the session's unit of work
\* UPDATE statements of a flush: one per modified object, in the order of the
\* identity keys; the first one the store rejects aborts the flush.
RECURSIVE FlushUpdates(_, _)
FlushUpdates(rows, d) ==
    IF d = {} THEN [ok |-> TRUE, rows |-> rows]
    ELSE LET e == CHOOSE x \in d : \A y \in d : x.key <= y.key
             old == CHOOSE r \in rows : r.id = e.key
         IN IF e.obj = old THEN FlushUpdates(rows, d \ {e})
            ELSE IF Violates(rows \ {old}, e.obj) THEN [ok |-> FALSE, rows |-> rows]
            ELSE FlushUpdates((rows \ {old}) \cup {e.obj}, d \ {e})

\* INSERT statements of a flush: the pending objects in the order they were added.
RECURSIVE FlushInserts(_, _)
FlushInserts(rows, n) ==
    IF n = <<>> THEN [ok |-> TRUE, rows |-> rows]
    ELSE IF Violates(rows, Head(n)) THEN [ok |-> FALSE, rows |-> rows]
    ELSE FlushInserts(rows \cup {Head(n)}, Tail(n))

\* Session.flush() on table main: the UPDATEs, then the INSERTs.  ok = FALSE is
\* sqlalchemy.exc.IntegrityError.
Flush(rows, n, d) ==
    LET u == FlushUpdates(rows, d)
    IN IF u.ok THEN FlushInserts(u.rows, n) ELSE u

\* Session.get(MainRecord, id): the identity map first (a modified object is
\* found under the key it was loaded with), then a SELECT by primary key on
\* what the transaction sees.  Pending objects have no identity yet.
NoObj == [id |-> NoInt]
Get(rows, d, id) ==
    IF \E e \in d : e.key = id
    THEN LET e == CHOOSE x \in d : x.key = id IN [key |-> id, obj |-> e.obj]
    ELSE IF \E r \in rows : r.id = id
    THEN [key |-> id, obj |-> CHOOSE r \in rows : r.id = id]
    ELSE [key |-> NoInt, obj |-> NoObj]

\* The in-memory object of a row a query returned: the identity map's object
\* when the row's key is in it (its attributes are not refreshed), else the row.
Loaded(d, r) ==
    IF \E e \in d : e.key = r.id
    THEN (CHOOSE e \in d : e.key = r.id).obj
    ELSE r

\* The session after an attribute write made object o of identity key.
Touch(d, key, o) ==
    {e \in d : e.key # key} \cup {[key |-> key, obj |-> o]}

\* ------------------------------------------------------ the import run
\* sessionmaker(autocommit=False, autoflush=False): a query never flushes the
\* pending objects first.
autoflush == FALSE

\* The loop's local state as one value: the transaction's rows, the session,
\* the memo, the sequences, the counters, the warnings; err names the
\* exception that left the handler, pair the resolver's answer, out the answer
\* of the request.
NoPair == [city_id |-> NoInt, corpus_id |-> NoInt]
Loop ==
    [tx |-> tx, new |-> new, dirty |-> dirty, cache |-> cache,
     cseq |-> cities_id_seq, kseq |-> corpuses_id_seq,
     imported |-> imported, updated |-> updated, unchanged |-> unchanged,
     skipped |-> skipped, warnings |-> warnings, err |-> "", pair |-> NoPair,
     out |-> NoResponse]

\* db.flush(): the pending UPDATEs and INSERTs of table main reach the
\* transaction, or the store rejects one and IntegrityError is raised.
DbFlush(L) ==
    LET f == Flush(L.tx.main, L.new, L.dirty)
    IN IF f.ok
       THEN [L EXCEPT !.tx.main = f.rows, !.new = <<>>, !.dirty = {}]
       ELSE [L EXCEPT !.err = "IntegrityError"]

\* db.add(City(name)); db.flush(): the serial hands out the id, the row is
\* inserted (cities.name is UNIQUE) and the rest of the session is flushed.
AddCity(L, name) ==
    LET id == L.cseq + 1
    IN IF \E c \in L.tx.cities : c.name = name
       THEN [L EXCEPT !.cseq = id, !.err = "IntegrityError"]
       ELSE DbFlush([L EXCEPT !.cseq = id,
                              !.tx.cities = @ \cup {[id |-> id, name |-> name]}])

\* db.add(Corpus(city_id, name)); db.flush() (uq_corpuses_city_name, and the
\* foreign key to cities.id).
AddCorpus(L, city_id, name) ==
    LET id == L.kseq + 1
    IN IF \/ \E k \in L.tx.corpuses : k.city_id = city_id /\ k.name = name
          \/ ~ \E c \in L.tx.cities : c.id = city_id
       THEN [L EXCEPT !.kseq = id, !.err = "IntegrityError"]
       ELSE DbFlush([L EXCEPT !.kseq = id,
                              !.tx.corpuses = @ \cup
                                  {[id |-> id, city_id |-> city_id, name |-> name]}])

CityByName(rows, name) == {c \in rows : c.name = name}
CorpusByName(rows, city_id, name) == {k \in rows : k.city_id = city_id /\ k.name = name}

CityIdOf(L, name) == (CHOOSE c \in L.tx.cities : c.name = name).id
CorpusIdOf(L, city_id, name) ==
    (CHOOSE k \in L.tx.corpuses : k.city_id = city_id /\ k.name = name).id

\* EnsureCity without the lookup.
EnsureCity_NoLookup(L, name) == AddCity(L, name)

\* city = select by name; if not city: add and flush
EnsureCity(L, name) ==
    IF CityByName(L.tx.cities, name) # {} THEN L ELSE AddCity(L, name)

\* corpus = select by (city_id, name); if not corpus: add and flush
EnsureCorpus(L, city_id, name) ==
    IF L.err # "" \/ CorpusByName(L.tx.corpuses, city_id, name) # {} THEN L
    ELSE AddCorpus(L, city_id, name)

\* cache[key] = (city.id, corpus.id); return cache[key]
Memoize(L, city_name_in, corpus_name_in, city_id) ==
    IF L.err # "" THEN L
    ELSE [L EXCEPT
             !.cache = @ \cup {[city_name |-> city_name_in, corpus_name |-> corpus_name_in,
                                city_id |-> city_id,
                                corpus_id |-> CorpusIdOf(L, city_id, corpus_name_in)]},
             !.pair = [city_id |-> city_id,
                       corpus_id |-> CorpusIdOf(L, city_id, corpus_name_in)]]

\* The corpus half of the resolver, once the city is there (or its flush failed).
ResolveCorpus(L, city_name_in, corpus_name_in) ==
    IF L.err # "" THEN L
    ELSE Memoize(EnsureCorpus(L, CityIdOf(L, city_name_in), corpus_name_in),
                 city_name_in, corpus_name_in, CityIdOf(L, city_name_in))

FromCache(L, m) == [L EXCEPT !.pair = [city_id |-> m.city_id, corpus_id |-> m.corpus_id]]

\* get_or_create_city_corpus: the memo, else find or create the city, then find
\* or create the corpus under it, and remember the pair.
get_or_create_city_corpus(L, city_name_in, corpus_name_in) ==
    IF city_name_in = None \/ corpus_name_in = None THEN [L EXCEPT !.pair = NoPair]
    ELSE IF \E m \in L.cache : m.city_name = city_name_in /\ m.corpus_name = corpus_name_in
    THEN FromCache(L, CHOOSE m \in L.cache :
                          m.city_name = city_name_in /\ m.corpus_name = corpus_name_in)
    ELSE ResolveCorpus(EnsureCity(L, city_name_in), city_name_in, corpus_name_in)

\* Skip with the count forgotten.
Skip_Uncounted(L, ext_id, msg) ==
    [L EXCEPT !.warnings = Append(@, [id |-> ext_id, msg |-> msg])]

\* skipped += 1; warnings.append(...); continue
Skip(L, ext_id, msg) ==
    [L EXCEPT !.skipped = @ + 1, !.warnings = Append(@, [id |-> ext_id, msg |-> msg])]

\* ext_id = f.get("id") or item.get("pk")
ExtId(item) == IF item.id # NoInt THEN item.id ELSE item.pk

\* StreetOf with the trim forgotten.
StreetOf_Untrimmed(item) == OrEmpty(item.street)

\* street = (f.get("street") or "").strip()
StreetOf(item) == strip(OrEmpty(item.street))

\* house_num: the trimmed s_number, None when it is empty
HouseNumOf(item) ==
    LET house_num_raw == strip(OrEmpty(item.s_number))
    IN IF house_num_raw # <<>> THEN house_num_raw ELSE None

\* city_name = (payload.city_name or f.get("city") or "").strip()
CityNameOf(p, item) == strip(OrEmpty(OrElse(p.city_name, item.city)))
CorpusNameOf(p, item) == strip(OrEmpty(OrElse(p.corpus_name, item.s_liter)))

\* ApplyFields that also resets the status flag of a record it changes.
ApplyFields_ResetsStatus(obj, corpus_id, street, house_num) ==
    IF obj.corpus_id # corpus_id \/ obj.street # street \/ obj.house_num # house_num
    THEN [obj EXCEPT !.corpus_id = corpus_id, !.street = street,
                     !.house_num = house_num, !.status = TRUE]
    ELSE obj

\* if obj: the three field comparisons, each assigning on a difference
ApplyFields(obj, corpus_id, street, house_num) ==
    LET o1 == IF obj.corpus_id # corpus_id THEN [obj EXCEPT !.corpus_id = corpus_id] ELSE obj
        o2 == IF o1.street # street THEN [o1 EXCEPT !.street = street] ELSE o1
    IN IF o2.house_num # house_num THEN [o2 EXCEPT !.house_num = house_num] ELSE o2

\* if obj: compare and assign; updated or unchanged.  found is [key, obj].
UpdateById(L, found, o) ==
    IF o # found.obj
    THEN [L EXCEPT !.dirty = Touch(@, found.key, o), !.updated = @ + 1]
    ELSE [L EXCEPT !.unchanged = @ + 1]

\* Rekey that also enables the record.
Rekey_ResetsStatus(L, r, ext_id) ==
    [L EXCEPT !.dirty = Touch(@, r.id, [Loaded(L.dirty, r) EXCEPT !.id = ext_id,
                                                                  !.status = TRUE]),
              !.updated = @ + 1]

\* if dup: dup.id = int(ext_id); updated += 1.  (int() of an integer id never
\* raises, so the except Exception branch beside it is not taken.)
Rekey(L, r, ext_id) ==
    [L EXCEPT !.dirty = Touch(@, r.id, [Loaded(L.dirty, r) EXCEPT !.id = ext_id]),
              !.updated = @ + 1]

\* db.add(MainRecord(id=int(ext_id), ..., status=True)); imported += 1
InsertNew(L, ext_id, corpus_id, street, house_num) ==
    [L EXCEPT !.new = Append(@, [id |-> ext_id, corpus_id |-> corpus_id,
                                 street |-> street, house_num |-> house_num,
                                 status |-> TRUE]),
              !.imported = @ + 1]

\* The else branch of the try: the SELECT by natural key returns its first
\* row, any of them when several match.
ByKey(L, dups, ext_id, corpus_id, street, house_num) ==
    IF dups # {} THEN {Rekey(L, r, ext_id) : r \in dups}
    ELSE {InsertNew(L, ext_id, corpus_id, street, house_num)}

\* The body of the try: by id, else by natural key, else a new pending object.
\* The result is the set of states the body may end in.
TryBody(L, found, ext_id, corpus_id, street, house_num) ==
    IF found.key # NoInt
    THEN {UpdateById(L, found, ApplyFields(found.obj, corpus_id, street, house_num))}
    ELSE ByKey(L, ByNaturalKey(L.tx.main, corpus_id, street, house_num),
               ext_id, corpus_id, street, house_num)

\* except IntegrityError: db.rollback(); skipped += 1; warnings.append(...).
\* Session.rollback() ends the whole transaction: what was flushed is undone
\* and the pending and modified objects are dropped.
OnIntegrityError(L, committed, ext_id) ==
    Skip([L EXCEPT !.tx = committed, !.new = <<>>, !.dirty = {}, !.err = ""],
         ext_id, "integrity error")

\* try: ... except IntegrityError.  F is the state at the first query of the
\* body: an IntegrityError can only come from the flush a query would trigger.
Try(F, committed, ext_id, street, house_num) ==
    IF F.err # "" THEN {OnIntegrityError(F, committed, ext_id)}
    ELSE TryBody(F, Get(F.tx.main, F.dirty, ext_id), ext_id, F.pair.corpus_id,
                 street, house_num)

\* The iteration from the resolver's answer on.
AfterResolve(R, committed, ext_id, street, house_num) ==
    IF R.err # "" THEN {R}
    ELSE IF R.pair = NoPair
    THEN {Skip(R, ext_id, "no city/corpus in payload or source")}
    ELSE Try(IF autoflush THEN DbFlush(R) ELSE R, committed, ext_id, street, house_num)

\* One iteration of the for loop over results.
Reconcile(L, p, item, committed) ==
    IF ExtId(item) = NoInt THEN {Skip(L, NoInt, "Missing id in source record")}
    ELSE IF StreetOf(item) = <<>> THEN {Skip(L, ExtId(item), "empty street")}
    ELSE AfterResolve(get_or_create_city_corpus(L, OrNone(CityNameOf(p, item)),
                                                OrNone(CorpusNameOf(p, item))),
                      committed, ExtId(item), StreetOf(item), HouseNumOf(item))

\* ------------------------------------------------------ create-with-names
StatusArgs == {"None", "True", "False"}

\* MainCreateByNamesIn after validation: id > 0, text stripped, street
\* non-empty.  ByNames names the city and the corpus, ByIds gives their ids,
\* Mixed one of each, Nameless neither for the city or for the corpus.
BaseCreate ==
    [id |-> 1, city_id |-> NoInt, city_name |-> <<"X">>, corpus_id |-> NoInt,
     corpus_name |-> <<"K">>, street |-> <<"a">>, house_num |-> <<"1">>,
     status |-> "None"]
ByNames ==
    [id : RecordIds, city_id : {NoInt}, city_name : CityNames, corpus_id : {NoInt},
     corpus_name : CorpusNames, street : Streets, house_num : HouseNums,
     status : StatusArgs]
ByIds ==
    {[BaseCreate EXCEPT !.id = i, !.city_id = c, !.corpus_id = k, !.city_name = None,
                        !.corpus_name = None] : i \in RecordIds, c \in {1, 2}, k \in {1, 2}}
Mixed ==
    {[BaseCreate EXCEPT !.id = i, !.city_id = c, !.city_name = None] :
         i \in RecordIds, c \in {1, 2}}
    \cup {[BaseCreate EXCEPT !.id = i, !.corpus_id = k] : i \in RecordIds, k \in {1, 2}}
Nameless ==
    {[BaseCreate EXCEPT !.city_name = None], [BaseCreate EXCEPT !.corpus_name = None]}

CreatePayloads == ByNames \cup ByIds \cup Mixed \cup Nameless

\* raise HTTPException(status_code, detail)
Http(L, status, detail) ==
    [L EXCEPT !.err = "HTTPException",
              !.out = [op |-> "create_with_names", status |-> status, detail |-> detail]]

\* corpus_id = corpus.id
WithPair(L, city_id, name) ==
    IF L.err # "" THEN L
    ELSE [L EXCEPT !.pair = [city_id |-> city_id,
                             corpus_id |-> CorpusIdOf(L, city_id, name)]]

\* Step 2 by name: find or create the corpus under city_id.
CorpusByNameStep(L, P, city_id) ==
    IF P.corpus_name = None THEN Http(L, 400, "Provide corpus_id or corpus_name")
    ELSE WithPair(EnsureCorpus(L, city_id, P.corpus_name), city_id, P.corpus_name)

\* Step 2 by id: db.get(Corpus, corpus_id) must belong to the city.
CorpusByIdStep(L, P, city_id) ==
    IF \E k \in L.tx.corpuses : k.id = P.corpus_id /\ k.city_id = city_id
    THEN [L EXCEPT !.pair = [city_id |-> city_id, corpus_id |-> P.corpus_id]]
    ELSE Http(L, 400, "Corpus does not belong to the specified city")

CorpusStep(L, P, city_id) ==
    IF L.err # "" THEN L
    ELSE IF P.corpus_id = NoInt THEN CorpusByNameStep(L, P, city_id)
    ELSE CorpusByIdStep(L, P, city_id)

\* Step 1: the city, by id or by name (created when the name is new).
CityStep(L, P) ==
    IF P.city_id # NoInt THEN L ELSE EnsureCity(L, P.city_name)

\* Steps 1 and 2 of create_with_names.  err = "" and pair = the two ids, or err
\* names the HTTPException / IntegrityError that ends the request.
ResolveForCreate(L, P) ==
    IF P.city_id = NoInt /\ P.city_name = None
    THEN Http(L, 400, "Provide city_id or city_name")
    ELSE CorpusStep(CityStep(L, P), P,
                    IF P.city_id # NoInt THEN P.city_id
                    ELSE IF CityStep(L, P).err # "" THEN NoInt
                    ELSE CityIdOf(CityStep(L, P), P.city_name))

\* MainRecord(id=payload.id, ..., status=True if payload.status is None else it)
NewRecord(L, P) ==
    [id |-> P.id, corpus_id |-> L.pair.corpus_id, street |-> P.street,
     house_num |-> P.house_num,
     status |-> IF P.status = "None" THEN TRUE ELSE P.status = "True"]

\* Step 5: the answer with the names, or 409 for the commit's IntegrityError.
AnswerCreate(C, obj) ==
    IF C.err # ""
    THEN Http(C, 409, "ID already exists or unique constraint violated")
    ELSE [C EXCEPT !.out =
             [op |-> "create_with_names", status |-> 200,
              body |-> [id |-> obj.id,
                        city_name |-> (CHOOSE c \in C.tx.cities :
                                           c.id = C.pair.city_id).name,
                        corpus_name |-> (CHOOSE k \in C.tx.corpuses :
                                             k.id = C.pair.corpus_id).name,
                        street |-> obj.street, house_num |-> obj.house_num,
                        status |-> obj.status]]]

\* Steps 3 and 4: the duplicate pre-check, db.add(obj) and db.commit().
CreateRecord(L, P) ==
    IF L.err # "" THEN L
    ELSE IF ByNaturalKey(L.tx.main, L.pair.corpus_id, P.street, P.house_num) # {}
    THEN Http(L, 409, "Record already exists for this (corpus, street, house_num)")
    ELSE AnswerCreate(DbFlush([L EXCEPT !.new = Append(@, NewRecord(L, P))]),
                      NewRecord(L, P))

create_with_names(L, P) == CreateRecord(ResolveForCreate(L, P), P)

\* ------------------------------------------- the single-statement requests
\* What such a request leaves: the rows it commits and its answer.  req is
\* the request the answer belongs to.
Refused(rows, op, status, detail, req) ==
    [rows |-> rows, out |-> [op |-> op, status |-> status, detail |-> detail, req |-> req]]
Done(rows, op, status, body, req) ==
    [rows |-> rows, out |-> [op |-> op, status |-> status, body |-> body, req |-> req]]

\* MainCreate after validation: street stripped and non-empty, house_num
\* stripped (None, "" and text are all valid), no id field.
MainCreatePayloads ==
    [corpus_id : {1, 2}, street : Streets, house_num : HouseNums, status : {"None"}]

\* create_record: the corpus must exist, the natural key must be free; then
\* MainRecord(id=payload.id, ...) reads a field MainCreate does not have and
\* AttributeError leaves the handler before db.add.
create_record(rows, P) ==
    IF ~ \E k \in rows.corpuses : k.id = P.corpus_id
    THEN Refused(rows, "create_record", 400, "Corpus not found", P)
    ELSE IF ByNaturalKey(rows.main, P.corpus_id, P.street, P.house_num) # {}
    THEN Refused(rows, "create_record", 409,
                 "Record already exists for this (corpus, street, house_num)", P)
    ELSE Refused(rows, "create_record", 500, "AttributeError", P)

\* MainUpdate after validation: every field may be absent; street is
\* stripped and non-empty, house_num stripped (so "" is valid).
MainUpdatePayloads ==
    [corpus_id : {NoInt, 1, 2}, street : {None} \cup Streets,
     house_num : HouseNums, status : StatusArgs]

\* The four assignments of update_record: corpus_id when truthy, the others
\* when not None.
Assign(obj, P) ==
    [obj EXCEPT !.corpus_id = IF P.corpus_id # NoInt THEN P.corpus_id ELSE @,
                !.street = IF P.street # None THEN P.street ELSE @,
                !.house_num = IF P.house_num # None THEN P.house_num ELSE @,
                !.status = IF P.status # "None" THEN P.status = "True" ELSE @]

\* db.commit() of a handler that changed one loaded record: the UPDATE of the
\* flush, which the store rejects with IntegrityError when the new values
\* collide with another row.  The handler does not catch it.
CommitUpdate(rows, obj, o, op, req) ==
    IF o # obj /\ Violates(rows.main \ {obj}, o)
    THEN Refused(rows, op, 500, "IntegrityError", req)
    ELSE Done([rows EXCEPT !.main = (@ \ {obj}) \cup {o}], op, 200, o, req)

\* update_record: 404 for an unknown record, 400 for an unknown corpus, then
\* the assignments and the commit.
update_record(rows, record_id, P) ==
    LET req == [record_id |-> record_id, payload |-> P]
        hit == {r \in rows.main : r.id = record_id}
    IN IF hit = {} THEN Refused(rows, "update_record", 404, "Record not found", req)
       ELSE IF P.corpus_id # NoInt /\ ~ \E k \in rows.corpuses : k.id = P.corpus_id
       THEN Refused(rows, "update_record", 400, "Corpus not found", req)
       ELSE CommitUpdate(rows, CHOOSE r \in hit : TRUE,
                         Assign(CHOOSE r \in hit : TRUE, P), "update_record", req)

\* delete_record: an unknown id is answered 204 like a deleted one.
delete_record(rows, record_id) ==
    Done([rows EXCEPT !.main = {r \in @ : r.id # record_id}],
         "delete_record", 204, "", [record_id |-> record_id])

\* BulkStatusIn: a status and any of city_id, corpus_id, city_name,
\* corpus_name (the names are plain strings, not stripped).
BulkStatusPayloads ==
    [status : BOOLEAN, city_id : {NoInt, 1, 2}, corpus_id : {NoInt, 1, 2},
     city_name : {None, <<"X">>}, corpus_name : {None, <<"K">>}]

\* UPDATE main SET status = .. WHERE corpus_id = .. that stops after one row.
SetStatus_FirstRowOnly(rows, corpus_id, status) ==
    LET hit == {r \in rows : r.corpus_id = corpus_id}
    IN IF hit = {} THEN rows
       ELSE LET r == CHOOSE x \in hit : \A y \in hit : x.id <= y.id
            IN (rows \ {r}) \cup {[r EXCEPT !.status = status]}

\* UPDATE main SET status = .. WHERE corpus_id = ..
SetStatus(rows, corpus_id, status) ==
    {IF r.corpus_id = corpus_id THEN [r EXCEPT !.status = status] ELSE r : r \in rows}

\* Whether the name branch is taken: an id is missing and both names are given.
ByNameBranch(P) ==
    /\ P.city_id = NoInt \/ P.corpus_id = NoInt
    /\ OrEmpty(P.city_name) # <<>> /\ OrEmpty(P.corpus_name) # <<>>

\* The last part of bulk_status_change, with city_id and corpus_id settled:
\* both must be given, the city must exist and the corpus must be one of its
\* corpuses; then the one UPDATE and the commit.  The answer counts the rows
\* the UPDATE matched.
BulkById(rows, P, city_id, corpus_id) ==
    IF city_id = NoInt \/ corpus_id = NoInt
    THEN Refused(rows, "bulk_status_change", 400,
                 "Provide (city_id & corpus_id) or (city_name & corpus_name)", P)
    ELSE IF ~ \E c \in rows.cities : c.id = city_id
    THEN Refused(rows, "bulk_status_change", 404, "City not found", P)
    ELSE IF ~ \E k \in rows.corpuses : k.id = corpus_id /\ k.city_id = city_id
    THEN Refused(rows, "bulk_status_change", 400,
                 "Corpus does not belong to the specified city", P)
    ELSE Done([rows EXCEPT !.main = SetStatus(@, corpus_id, P.status)],
              "bulk_status_change", 200,
              [updated |-> Cardinality({r \in rows.main : r.corpus_id = corpus_id}),
               status |-> P.status, city_id |-> city_id, corpus_id |-> corpus_id], P)

\* bulk_status_change: the ids of the payload, or the ids the names resolve to.
bulk_status_change(rows, P) ==
    IF ~ ByNameBranch(P) THEN BulkById(rows, P, P.city_id, P.corpus_id)
    ELSE IF CityByName(rows.cities, P.city_name) = {}
    THEN Refused(rows, "bulk_status_change", 404, "City not found by name", P)
    ELSE LET city == CHOOSE c \in CityByName(rows.cities, P.city_name) : TRUE
         IN IF CorpusByName(rows.corpuses, city.id, P.corpus_name) = {}
            THEN Refused(rows, "bulk_status_change", 404,
                         "Corpus not found by name within the city", P)
            ELSE BulkById(rows, P, city.id,
                          (CHOOSE k \in CorpusByName(rows.corpuses, city.id,
                                                     P.corpus_name) : TRUE).id)

\* The statement of bulk_status_change or its commit failing in the store
\* (the connection is lost): the exception leaves the handler and the
\* transaction is rolled back.
StoreFails(rows, R) ==
    Refused(rows, R.out.op, 500, "OperationalError", R.out.req)

\* db.delete(corpus) and the flush of the commit: Corpus.main_records
\* cascades "all,delete", so the unit of work loads the records of the corpus
\* and emits their DELETEs before the DELETE of the corpus; the foreign key
\* of main never sees an owning corpus go.
DeleteCorpusRows(rows, corpus_id) ==
    [rows EXCEPT !.main = {r \in @ : r.corpus_id # corpus_id},
                 !.corpuses = {k \in @ : k.id # corpus_id}]

\* delete_corpus: an unknown id is answered 204 like a deleted one.
delete_corpus(rows, corpus_id) ==
    Done(DeleteCorpusRows(rows, corpus_id), "delete_corpus", 204, "",
         [corpus_id |-> corpus_id])

\* corpuses_ids of delete_city
CorpusIdsOf(rows, city_id) == {k.id : k \in {x \in rows.corpuses : x.city_id = city_id}}

\* (has_corpuses or has_mains) with the force flag taken for set.
Blocked_ForceAssumed(rows, city_id, force) == FALSE

\* (has_corpuses or has_mains) and not force
Blocked(rows, city_id, force) ==
    LET has_corpuses == CorpusIdsOf(rows, city_id) # {}
        has_mains == /\ has_corpuses
                     /\ \E r \in rows.main : r.corpus_id \in CorpusIdsOf(rows, city_id)
    IN (has_corpuses \/ has_mains) /\ ~ force

\* The two bulk DELETEs of the forced branch (records first, then corpuses)
\* and db.delete(city), whose cascade over City.corpuses deletes the corpuses
\* still there, and theirs the records.
DeleteCityRows(rows, city_id) ==
    [rows EXCEPT !.main = {r \in @ : r.corpus_id \notin CorpusIdsOf(rows, city_id)},
                 !.corpuses = {k \in @ : k.city_id # city_id},
                 !.cities = {c \in @ : c.id # city_id}]

\* delete_city: an unknown id is answered 204; dependents without force are
\* answered 409 before any statement.
delete_city(rows, city_id, force) ==
    LET req == [city_id |-> city_id, force |-> force]
    IN IF ~ \E c \in rows.cities : c.id = city_id
       THEN Done(rows, "delete_city", 204, "", req)
       ELSE IF Blocked(rows, city_id, force)
       THEN Refused(rows, "delete_city", 409,
                    "City has dependent corpuses/mains; use force=true to cascade", req)
       ELSE Done(DeleteCityRows(rows, city_id), "delete_city", 204, "", req)

\* ------------------------------------------------------------- actions
\* The requests served at once (sync handlers run on the server's thread
\* pool), each with the session get_db gives it.  at is the statement the
\* request is about to run, own the rows its open transaction has inserted,
\* city_id and corpus_id what the resolver holds, out the answer.
Workers == {1, 2}
NoRows == [cities |-> {}, corpuses |-> {}]
IdleWorker ==
    [at |-> "idle", op |-> "none", city_name |-> None, corpus_name |-> None,
     own |-> NoRows, city_id |-> NoInt, corpus_id |-> NoInt, out |-> NoResponse]

Committed == [cities |-> cities, corpuses |-> corpuses, main |-> main]

Init ==
    /\ cities = {} /\ corpuses = {} /\ main = {}
    /\ cities_id_seq = 0 /\ corpuses_id_seq = 0
    /\ pc = "idle"
    /\ payload = NoPayload
    /\ total_source = 0 /\ idx = 0
    /\ imported = 0 /\ updated = 0 /\ unchanged = 0 /\ skipped = 0
    /\ warnings = <<>>
    /\ cache = {}
    /\ tx = EmptyTx /\ new = <<>> /\ dirty = {}
    /\ response = NoResponse
    /\ served = 0
    /\ upstream = "none"
    /\ workers = [w \in Workers |-> IdleWorker]
    /\ begun = 0

\* The committed tables become rows.
Store(rows) ==
    /\ cities' = rows.cities
    /\ corpuses' = rows.corpuses
    /\ main' = rows.main

\* Durable with the rollback forgotten: what was flushed stays.
Durable_NoRollback(L, committed) == L.tx

\* What db.commit() makes durable: the transaction's rows, or nothing of them
\* when the request ended by an exception (the flush of the commit raised, or
\* the handler was left before it) and the transaction is rolled back.
Durable(L, committed) == IF L.err # "" THEN committed ELSE L.tx

\* An exception no handler catches: the request is answered 500.
Unhandled(op, exc) == [op |-> op, status |-> 500, detail |-> exc]

\* How s.post / raise_for_status / resp.json() may fail.
UpstreamFailures == {"timeout", "connection", "http_status", "non_json"}

\* The except clauses around the upstream call: requests.Timeout is answered
\* 504; everything else, the HTTPException raised for a non-JSON body included
\* (it is raised inside the try and is an Exception), is answered 502
\* "External API error".
UpstreamError(why) ==
    IF why = "timeout"
    THEN [op |-> "import_homes", status |-> 504, detail |-> "External API timeout"]
    ELSE [op |-> "import_homes", status |-> 502, detail |-> "External API error"]

\* What resp.json() may be: not a dict, a dict without "result" (or with a
\* null or empty one), a dict whose "result" lists n source records.
DataShapes == {"not_dict", "no_result", "result"}

\* An import request whose upstream call fails: the session has only run
\* SET LOCAL statement_timeout.
ImportUpstreamFails ==
    /\ pc = "idle"
    /\ served < MaxRequests
    /\ served' = served + 1
    /\ \E p \in ImportPayloads, why \in UpstreamFailures :
          /\ payload' = p
          /\ upstream' = why
          /\ response' = UpstreamError(why)
    /\ tx' = Committed
    /\ pc' = "closing"
    /\ UNCHANGED <<cities, corpuses, main, cities_id_seq, corpuses_id_seq,
                   total_source, idx, imported, updated, unchanged, skipped,
                   warnings, cache, new, dirty>>
    /\ UNCHANGED <<workers, begun>>

\* An import request whose upstream call answers JSON: results, total_source,
\* the counters, the warnings and the memo are set up.
ImportFetch ==
    /\ pc = "idle"
    /\ served < MaxRequests
    /\ served' = served + 1
    /\ \E p \in ImportPayloads, shape \in DataShapes, n \in 0..MaxBatch :
          /\ payload' = p
          /\ upstream' = shape
          /\ total_source' = IF shape = "result" THEN n ELSE 0
    /\ tx' = Committed
    /\ idx' = 0
    /\ imported' = 0 /\ updated' = 0 /\ unchanged' = 0 /\ skipped' = 0
    /\ warnings' = <<>>
    /\ cache' = {}
    /\ pc' = "loop"
    /\ UNCHANGED <<cities, corpuses, main, cities_id_seq, corpuses_id_seq,
                   new, dirty, response>>
    /\ UNCHANGED <<workers, begun>>

\* One source record: an iteration of the loop, or the exception that leaves
\* the handler (IntegrityError of a flush in the resolver), answered 500.
ImportItem ==
    /\ pc = "loop"
    /\ idx < total_source
    /\ \E item \in Items :
          \E L \in Reconcile(Loop, payload, item, Committed) :
             /\ L.cseq <= MaxSeq /\ L.kseq <= MaxSeq
             /\ tx' = L.tx /\ new' = L.new /\ dirty' = L.dirty /\ cache' = L.cache
             /\ cities_id_seq' = L.cseq /\ corpuses_id_seq' = L.kseq
             /\ imported' = L.imported /\ updated' = L.updated
             /\ unchanged' = L.unchanged /\ skipped' = L.skipped
             /\ warnings' = L.warnings
             /\ IF L.err # ""
                THEN /\ pc' = "closing"
                     /\ response' = Unhandled("import_homes", L.err)
                     /\ idx' = idx
                ELSE /\ pc' = "loop"
                     /\ response' = response
                     /\ idx' = idx + 1
    /\ UNCHANGED <<cities, corpuses, main, payload, total_source, served>>
    /\ UNCHANGED <<workers, begun, upstream>>

\* city_id of the summary: -1 without payload.city_name, else the id of the
\* city of that name, None when there is none.
SummaryCityId(rows, p) ==
    IF p.city_name = None THEN -1
    ELSE IF CityByName(rows.cities, strip(p.city_name)) = {} THEN NoInt
    ELSE (CHOOSE c \in rows.cities : c.name = strip(p.city_name)).id

\* corpus_id of the summary: the first row of the join, any of them when
\* several corpuses carry the name, -1 when none does.
SummaryCorpusIds(rows, p) ==
    LET m == {k.id : k \in {k \in rows.corpuses :
                  /\ k.name = strip(p.corpus_name)
                  /\ \E c \in rows.cities :
                        /\ c.id = k.city_id
                        /\ (p.city_name # None => c.name = strip(p.city_name))}}
    IN IF p.corpus_name = None \/ m = {} THEN {-1} ELSE m

\* The answer of a run that committed: the ImportSummary, or the validation
\* error of ImportSummary(city_id=None).
Summary(rows, p, L, corpus_id) ==
    IF SummaryCityId(rows, p) = NoInt
    THEN Unhandled("import_homes", "ValidationError")
    ELSE [op |-> "import_homes", status |-> 200,
          body |-> [total_source |-> total_source, imported |-> L.imported,
                    updated |-> L.updated, unchanged |-> L.unchanged,
                    skipped |-> L.skipped,
                    city_id |-> SummaryCityId(rows, p), corpus_id |-> corpus_id,
                    warnings |-> SubSeq(L.warnings, 1,
                                        IF Len(L.warnings) < WarningCap
                                        THEN Len(L.warnings) ELSE WarningCap)]]

\* After the loop: db.commit() (a flush, then the commit) and the summary.  An
\* IntegrityError of the flush leaves the handler and is answered 500.
ImportCommit ==
    /\ pc = "loop"
    /\ idx = total_source
    /\ \E C \in {DbFlush(Loop)} :
          IF C.err # ""
          THEN /\ response' = Unhandled("import_homes", C.err)
               /\ Store(Durable(C, Committed))
               /\ UNCHANGED <<tx, new, dirty>>
          ELSE /\ Store(Durable(C, Committed))
               /\ tx' = C.tx /\ new' = C.new /\ dirty' = C.dirty
               /\ \E corpus_id \in SummaryCorpusIds(C.tx, payload) :
                     response' = Summary(C.tx, payload, C, corpus_id)
    /\ pc' = "closing"
    /\ UNCHANGED <<cities_id_seq, corpuses_id_seq, payload, total_source, idx,
                   imported, updated, unchanged, skipped, warnings, cache, served>>
    /\ UNCHANGED <<workers, begun, upstream>>

\* A create-with-names request, from its first statement to its answer.
CreateWithNames ==
    /\ pc = "idle"
    /\ served < MaxRequests
    /\ served' = served + 1
    /\ \E P \in CreatePayloads :
          \E R \in {create_with_names([Loop EXCEPT !.tx = Committed], P)} :
             /\ R.cseq <= MaxSeq /\ R.kseq <= MaxSeq
             /\ cities_id_seq' = R.cseq /\ corpuses_id_seq' = R.kseq
             /\ Store(Durable(R, Committed))
             /\ tx' = R.tx
             /\ response' = IF R.err \in {"", "HTTPException"} THEN R.out
                            ELSE Unhandled("create_with_names", R.err)
    /\ pc' = "closing"
    /\ UNCHANGED <<payload, total_source, idx, imported, updated, unchanged,
                   skipped, warnings, cache, new, dirty>>
    /\ UNCHANGED <<workers, begun, upstream>>

\* get_db's finally: db.close() ends the transaction (what was not committed
\* is rolled back) and empties the session; the answer has left.
CloseSession ==
    /\ pc = "closing"
    /\ pc' = "idle"
    /\ payload' = NoPayload
    /\ total_source' = 0 /\ idx' = 0
    /\ imported' = 0 /\ updated' = 0 /\ unchanged' = 0 /\ skipped' = 0
    /\ warnings' = <<>>
    /\ cache' = {}
    /\ tx' = EmptyTx /\ new' = <<>> /\ dirty' = {}
    /\ upstream' = "none"
    /\ response' = NoResponse
    /\ UNCHANGED <<cities, corpuses, main, cities_id_seq, corpuses_id_seq, served>>
    /\ UNCHANGED <<workers, begun>>

\* The answer of a request whose handler commits at most once: R is what it
\* leaves.
Serve(R) ==
    /\ served < MaxRequests
    /\ served' = served + 1
    /\ Store(R.rows)
    /\ tx' = R.rows
    /\ response' = R.out
    /\ pc' = "closing"
    /\ UNCHANGED <<cities_id_seq, corpuses_id_seq, payload, total_source, idx,
                   imported, updated, unchanged, skipped, warnings, cache, new,
                   dirty, upstream, workers, begun>>

\* POST /main
PostRecord ==
    /\ pc = "idle"
    /\ \E P \in MainCreatePayloads : Serve(create_record(Committed, P))

\* PUT /main/{record_id}
PutRecord ==
    /\ pc = "idle"
    /\ \E record_id \in RecordIds, P \in MainUpdatePayloads :
           Serve(update_record(Committed, record_id, P))

\* DELETE /main/{record_id}
DeleteRecord ==
    /\ pc = "idle"
    /\ \E record_id \in RecordIds : Serve(delete_record(Committed, record_id))

\* PATCH /main/status-bulk; the store may fail the statement or the commit.
PatchStatusBulk ==
    /\ pc = "idle"
    /\ \E P \in BulkStatusPayloads, fails \in BOOLEAN :
           \E R \in {bulk_status_change(Committed, P)} :
               Serve(IF fails /\ R.out.status = 200 THEN StoreFails(Committed, R) ELSE R)

\* DELETE /corpuses/{corpus_id}
DeleteCorpus ==
    /\ pc = "idle"
    /\ \E corpus_id \in {1, 2} : Serve(delete_corpus(Committed, corpus_id))

\* DELETE /cities/{city_id}?force=
DeleteCity ==
    /\ pc = "idle"
    /\ \E city_id \in {1, 2}, force \in BOOLEAN :
           Serve(delete_city(Committed, city_id, force))

Next ==
    \/ ImportUpstreamFails
    \/ ImportFetch
    \/ ImportItem
    \/ ImportCommit
    \/ CreateWithNames
    \/ PostRecord
    \/ PutRecord
    \/ DeleteRecord
    \/ PatchStatusBulk
    \/ DeleteCorpus
    \/ DeleteCity
    \/ CloseSession

Spec == Init /\ [][Next]_vars

\* ------------------------------------------- requests served at once
\* The store is PostgreSQL at READ COMMITTED: a statement sees the committed
\* rows and the rows of its own transaction; an INSERT whose unique key an
\* open transaction of another session has inserted waits for that
\* transaction to end; a serial's value is handed out for good.  The
\* resolver runs statement by statement; what follows it in the handler (the
\* record and the commit) runs as one step.
\* What only the one-request-at-a-time specification moves.
sequential ==
    <<pc, payload, total_source, idx, imported, updated, unchanged, skipped,
      warnings, cache, tx, new, dirty, response, served, upstream>>

RaceCorpusNames == {<<"K">>, <<"L">>}
ResolverOps == {"import_homes", "create_with_names"}

\* What worker w's statements see.
Visible(w) ==
    [cities |-> cities \cup workers[w].own.cities,
     corpuses |-> corpuses \cup workers[w].own.corpuses,
     main |-> main]

\* The handler's local state in worker w.
WorkerLoop(w) ==
    [Loop EXCEPT !.tx = Visible(w),
                 !.pair = [city_id |-> workers[w].city_id,
                           corpus_id |-> workers[w].corpus_id]]

\* The INSERT of worker w waits: another session's open transaction holds a
\* row of the same unique key.
CityInsertWaits(w) ==
    \E v \in Workers \ {w} :
        CityByName(workers[v].own.cities, workers[w].city_name) # {}
CorpusInsertWaits(w) ==
    \E v \in Workers \ {w} :
        CorpusByName(workers[v].own.corpuses, workers[w].city_id,
                     workers[w].corpus_name) # {}

\* The request of worker w ends by exception exc: its transaction is rolled back.
Fails(w, exc) ==
    [workers EXCEPT ![w].at = "done", ![w].own = NoRows,
                    ![w].out = Unhandled(workers[w].op, exc)]

\* A request that names its city and its corpus reaches a worker.
Begin(w) ==
    /\ workers[w].at = "idle"
    /\ begun < MaxBegun
    /\ begun' = begun + 1
    /\ \E op \in ResolverOps, cn \in CityNames, kn \in RaceCorpusNames :
          workers' = [workers EXCEPT ![w] =
                         [IdleWorker EXCEPT !.at = "select_city", !.op = op,
                                            !.city_name = cn, !.corpus_name = kn]]
    /\ UNCHANGED <<cities, corpuses, main, cities_id_seq, corpuses_id_seq>>
    /\ UNCHANGED sequential

\* city = db.scalar(select(City).where(City.name == city_name))
SelectCity(w) ==
    /\ workers[w].at = "select_city"
    /\ workers' =
          IF CityByName(Visible(w).cities, workers[w].city_name) # {}
          THEN [workers EXCEPT ![w].at = "select_corpus",
                               ![w].city_id = CityIdOf(WorkerLoop(w), workers[w].city_name)]
          ELSE [workers EXCEPT ![w].at = "insert_city"]
    /\ UNCHANGED <<cities, corpuses, main, cities_id_seq, corpuses_id_seq, begun>>
    /\ UNCHANGED sequential

\* if not city: db.add(City(name)); db.flush().  No handler catches the
\* IntegrityError of this flush.
InsertCity(w) ==
    /\ workers[w].at = "insert_city"
    /\ ~ CityInsertWaits(w)
    /\ \E R \in {AddCity(WorkerLoop(w), workers[w].city_name)} :
          /\ cities_id_seq' = R.cseq
          /\ workers' =
                IF R.err # "" THEN Fails(w, R.err)
                ELSE [workers EXCEPT ![w].at = "select_corpus",
                                     ![w].city_id = R.cseq,
                                     ![w].own.cities = R.tx.cities \ cities]
    /\ UNCHANGED <<cities, corpuses, main, corpuses_id_seq, begun>>
    /\ UNCHANGED sequential

\* corpus = db.scalar(select(Corpus).where(city_id == city.id, name == corpus_name))
SelectCorpus(w) ==
    /\ workers[w].at = "select_corpus"
    /\ workers' =
          IF CorpusByName(Visible(w).corpuses, workers[w].city_id,
                          workers[w].corpus_name) # {}
          THEN [workers EXCEPT ![w].at = "record",
                               ![w].corpus_id = CorpusIdOf(WorkerLoop(w), workers[w].city_id,
                                                           workers[w].corpus_name)]
          ELSE [workers EXCEPT ![w].at = "insert_corpus"]
    /\ UNCHANGED <<cities, corpuses, main, cities_id_seq, corpuses_id_seq, begun>>
    /\ UNCHANGED sequential

\* if not corpus: db.add(Corpus(city_id, name)); db.flush()
InsertCorpus(w) ==
    /\ workers[w].at = "insert_corpus"
    /\ ~ CorpusInsertWaits(w)
    /\ \E R \in {AddCorpus(WorkerLoop(w), workers[w].city_id, workers[w].corpus_name)} :
          /\ corpuses_id_seq' = R.kseq
          /\ workers' =
                IF R.err # "" THEN Fails(w, R.err)
                ELSE [workers EXCEPT ![w].at = "record",
                                     ![w].corpus_id = R.kseq,
                                     ![w].own.corpuses = R.tx.corpuses \ corpuses]
    /\ UNCHANGED <<cities, corpuses, main, cities_id_seq, begun>>
    /\ UNCHANGED sequential

\* The record worker w's request carries: of id w, at street "a", number "1".
WorkerCreate(w) ==
    [BaseCreate EXCEPT !.id = w, !.city_name = workers[w].city_name,
                       !.corpus_name = workers[w].corpus_name]

\* The rest of create_with_names: the duplicate pre-check, the insert, the
\* commit, the answer.
RecordOfCreate(w) ==
    /\ workers[w].at = "record"
    /\ workers[w].op = "create_with_names"
    /\ \E R \in {CreateRecord(WorkerLoop(w), WorkerCreate(w))} :
          /\ Store(Durable(R, Committed))
          /\ workers' = [workers EXCEPT ![w].at = "done", ![w].own = NoRows,
                                        ![w].out = R.out]
    /\ UNCHANGED <<cities_id_seq, corpuses_id_seq, begun>>
    /\ UNCHANGED sequential

\* The rest of import_homes for a batch of one source record: the try body,
\* the commit, the summary.
RecordOfImport(w) ==
    /\ workers[w].at = "record"
    /\ workers[w].op = "import_homes"
    /\ \E L \in AfterResolve(WorkerLoop(w), Committed, w, <<"a">>, <<"1">>) :
          \E C \in {DbFlush(L)} :
             /\ Store(Durable(C, Committed))
             /\ workers' =
                   [workers EXCEPT
                       ![w].at = "done", ![w].own = NoRows,
                       ![w].out = IF C.err # "" THEN Unhandled("import_homes", C.err)
                                  ELSE [Summary(C.tx, NoPayload, C, -1)
                                            EXCEPT !.body.total_source = 1]]
    /\ UNCHANGED <<cities_id_seq, corpuses_id_seq, begun>>
    /\ UNCHANGED sequential

\* The answer leaves and get_db closes the session.
Respond(w) ==
    /\ workers[w].at = "done"
    /\ workers' = [workers EXCEPT ![w] = IdleWorker]
    /\ UNCHANGED <<cities, corpuses, main, cities_id_seq, corpuses_id_seq, begun>>
    /\ UNCHANGED sequential

ConcNext ==
    \E w \in Workers :
        \/ Begin(w)
        \/ SelectCity(w)
        \/ InsertCity(w)
        \/ SelectCorpus(w)
        \/ InsertCorpus(w)
        \/ RecordOfCreate(w)
        \/ RecordOfImport(w)
        \/ Respond(w)

ConcSpec == Init /\ [][ConcNext]_vars

\* =============================================================== claims
ImportSummaryReturned == response.op = "import_homes" /\ response.status = 200

\* The import request ended by the IntegrityError of a flush.
ImportEndedByViolation ==
    /\ pc = "closing"
    /\ response.op = "import_homes"
    /\ response.status = 500
    /\ response.detail = "IntegrityError"

SameKey(a, b) ==
    a.corpus_id = b.corpus_id /\ a.street = b.street /\ a.house_num = b.house_num

\* C1: in every summary an import run returns, imported + updated + unchanged
\* + skipped equals total_source.
C1_CountsAddUp ==
    ImportSummaryReturned =>
        response.body.imported + response.body.updated + response.body.unchanged
            + response.body.skipped = response.body.total_source

\* a summary of two source records, one skipped and one matched to a record
C1_Witness ==
    /\ ImportSummaryReturned
    /\ response.body.total_source = 2
    /\ response.body.skipped = 1
    /\ response.body.updated = 1

\* C2: a uniqueness violation the store raises for one source record never
\* ends the import run: the record is skipped and the run returns a summary.
C2_ViolationNeverEndsRun == ~ ImportEndedByViolation

\* C3: when the store raises a uniqueness violation during an import run, what
\* the run inserted for the other source records is in the store when the run
\* ends: here the first pending insert, which the store accepts on its own.
C3_OtherInsertsSurvive ==
    (ImportEndedByViolation /\ new # <<>> /\ ~ Violates(tx.main, new[1]))
        => new[1] \in main

\* C4: a step of an import request changes the committed store only when it is
\* the commit after the last source record and the run is not left by an
\* exception of the flush; an upstream failure is answered before the session
\* holds any change.
C4_ImportAtomic ==
    [][(pc \in {"idle", "loop"} /\ (pc' = "loop" \/ response'.op = "import_homes")) =>
          /\ Committed' # Committed =>
                /\ pc = "loop" /\ idx = total_source
                /\ response'.status = 200
                /\ Committed' = tx'
          /\ (pc' = "closing" /\ response'.status # 200) => Committed' = Committed
          /\ (pc = "idle" /\ pc' = "closing") =>
                tx' = Committed /\ new' = <<>> /\ dirty' = {}]_vars

\* a run left by a violation after it had flushed a new city into its transaction
C4_Witness == ImportEndedByViolation /\ tx.cities # cities

Blank(x) == x = None \/ \A i \in 1..Len(x) : x[i] = " "
MalformedItem(item) == (item.id = NoInt /\ item.pk = NoInt) \/ Blank(item.street)

KeyFields == {"corpus_id", "street", "house_num"}
RecordFields == {"id", "corpus_id", "street", "house_num", "status"}

\* The key fields in which record obj differs from the incoming values.
Differing(obj, inc) == {f \in KeyFields : obj[f] # inc[f]}

\* C6, for one source record at the current loop state: when the lookup by id
\* finds a record, no differing field means unchanged and nothing touched,
\* one differing field means updated and exactly that field assigned.
C6_At(item) ==
    LET R == get_or_create_city_corpus(Loop, OrNone(CityNameOf(payload, item)),
                                       OrNone(CorpusNameOf(payload, item)))
        found == Get(R.tx.main, R.dirty, ExtId(item))
        inc == [corpus_id |-> R.pair.corpus_id, street |-> StreetOf(item),
                house_num |-> HouseNumOf(item)]
    IN (/\ ~ MalformedItem(item) /\ ExtId(item) # NoInt
        /\ R.err = "" /\ R.pair # NoPair /\ found.key # NoInt) =>
          \A L \in Reconcile(Loop, payload, item, Committed) :
             /\ L.err = ""
             /\ L.imported = imported /\ L.skipped = skipped
             /\ Differing(found.obj, inc) = {} =>
                   /\ L.unchanged = unchanged + 1 /\ L.updated = updated
                   /\ L.tx = tx /\ L.new = new /\ L.dirty = dirty
             /\ Cardinality(Differing(found.obj, inc)) = 1 =>
                   /\ L.updated = updated + 1 /\ L.unchanged = unchanged
                   /\ \A f \in RecordFields :
                         Get(L.tx.main, L.dirty, found.key).obj[f]
                             = IF f \in Differing(found.obj, inc) THEN inc[f]
                               ELSE found.obj[f]

C7_IdMatchConflictNeverEndsRun ==
    ~ (/\ ImportEndedByViolation
       /\ new = <<>>
       /\ \E e \in dirty :
             /\ dirty = {e}
             /\ e.obj.id = e.key
             /\ \E S \in tx.main : S.id # e.key /\ SameKey(S, e.obj))

\* C8: a re-key to an external id that is already taken never ends the run:
\* here the id is taken by a record the same run inserted before.
C8_RekeyConflictNeverEndsRun ==
    ~ (/\ ImportEndedByViolation
       /\ \E e \in dirty :
             /\ e.obj.id # e.key
             /\ \E i \in 1..Len(new) : new[i].id = e.obj.id)

\* The state a resolution starts from: the running import's, else a fresh
\* request's over the committed store.
ResolverState ==
    IF pc = "loop" THEN Loop
    ELSE [Loop EXCEPT !.tx = Committed, !.cache = {}, !.new = <<>>, !.dirty = {}]

\* A later request over what L left: the memo is gone, the rows are there.
LaterRequest(L) == [L EXCEPT !.cache = {}, !.pair = NoPair]

SameAnswer(A, B) ==
    /\ B.err = ""
    /\ B.pair = A.pair
    /\ B.tx = A.tx
    /\ B.cseq = A.cseq /\ B.kseq = A.kseq

\* C9, for one pair of names at the current state: a resolution that answers
\* leaves one city row and one corpus row of these names, and resolving again
\* (in the same run, in a later run, in a later create-with-names call) gives
\* the same ids and creates nothing.
C9_At(cn, kn) ==
    LET R == get_or_create_city_corpus(ResolverState, cn, kn)
    IN R.err = "" =>
          /\ Cardinality(CityByName(R.tx.cities, cn)) = 1
          /\ Cardinality(CorpusByName(R.tx.corpuses, R.pair.city_id, kn)) = 1
          /\ SameAnswer(R, get_or_create_city_corpus(R, cn, kn))
          /\ SameAnswer(R, get_or_create_city_corpus(LaterRequest(R), cn, kn))
          /\ SameAnswer(R, ResolveForCreate(LaterRequest(R),
                               [BaseCreate EXCEPT !.city_name = cn, !.corpus_name = kn]))

OneRowPerName ==
    /\ \A c, d \in cities : c.name = d.name => c = d
    /\ \A k, l \in corpuses : (k.city_id = l.city_id /\ k.name = l.name) => k = l

\* C10: of two requests that resolve the same new name at once, the one whose
\* INSERT loses looks the name up again and completes: no request ends before
\* its resolver holds the ids of the city and of the corpus.
C10_LoserCompletes ==
    \A w \in Workers : workers[w].at = "done" => workers[w].corpus_id # NoInt

\* Upstream outcomes by kind: the call itself failed, or it answered a body
\* that is not JSON or is JSON of another shape than a dict.
NetworkFailures == {"timeout", "connection", "http_status"}
MalformedPayloads == {"non_json", "not_dict"}

\* C17: a malformed upstream payload is answered by a run-level error of its
\* own: not by a summary, and not by the answer a network failure gets.
C17_MalformedPayloadDistinct ==
    (response.op = "import_homes" /\ upstream \in MalformedPayloads) =>
        /\ response.status # 200
        /\ \A why \in NetworkFailures : response # UpstreamError(why)

\* C18: during a run, the lookups of the next source record find every record
\* the run has added so far, by its id and by its natural key.
C18_EarlierInsertsVisible ==
    pc = "loop" =>
        \A i \in 1..Len(new) :
            /\ Get(tx.main, dirty, new[i].id).key # NoInt
            /\ ByNaturalKey(tx.main, new[i].corpus_id, new[i].street,
                            new[i].house_num) # {}

\* The row of identity key in the transaction.
RowOf(rows, key) == CHOOSE r \in rows : r.id = key

\* C19, the session: every object the run has modified carries the status of
\* its row, and every object it has added is enabled.
StatusKeptInSession ==
    pc = "loop" =>
        /\ \A e \in dirty :
              /\ \E r \in tx.main : r.id = e.key
              /\ e.obj.status = RowOf(tx.main, e.key).status
        /\ \A i \in 1..Len(new) : new[i].status = TRUE

\* C19, the store: a step of the run leaves each row of the transaction as it
\* is or writes it as the session holds it, every other row it writes is an
\* added object, the run starts from the committed rows and commits the rows
\* of its transaction.
StatusKeptInStore ==
    /\ (pc = "idle" /\ pc' = "loop") => tx'.main = main
    /\ pc = "loop" =>
          /\ \A r \in tx.main :
                \/ r \in tx'.main
                \/ \E e \in dirty : e.key = r.id /\ e.obj \in tx'.main
          /\ \A r \in tx'.main \ tx.main :
                \/ \E e \in dirty : e.obj = r
                \/ \E i \in 1..Len(new) : new[i] = r
          /\ (pc' = "closing" /\ response'.status = 200) => main' = tx'.main

\* C19: an import run never changes the status of a record that existed
\* before it, whether it leaves the record, updates it or re-keys it, and
\* every record it inserts has status true.
C19_ImportKeepsStatus == []StatusKeptInSession /\ [][StatusKeptInStore]_vars

\* a run that re-keyed a disabled record, which stays disabled, and added another
C19_Witness ==
    /\ pc = "loop"
    /\ Len(new) = 1
    /\ \E e \in dirty : e.obj.id # e.key /\ ~ e.obj.status

\* The session of a request that starts now.
FreshSession ==
    [Loop EXCEPT !.tx = Committed, !.cache = {}, !.new = <<>>, !.dirty = {}]

\* A stored record holds (corpus_id, street, house_num); house_num may be None.
Held(corpus_id, street, house_num) ==
    \E r \in main :
        r.corpus_id = corpus_id /\ r.street = street /\ r.house_num = house_num

\* C11: whatever the store holds, creating a record under a (corpus, street,
\* house_num) that a stored record holds, a null house_num included, is
\* answered 409 and leaves the records as they are: by create_record, and by
\* create_with_names once it has resolved the corpus.
C11_DuplicateCreateConflicts ==
    pc = "idle" =>
        /\ \A P \in MainCreatePayloads :
              Held(P.corpus_id, P.street, P.house_num) =>
                  /\ create_record(Committed, P).out.status = 409
                  /\ create_record(Committed, P).rows = Committed
        /\ \A P \in CreatePayloads :
              LET S == ResolveForCreate(FreshSession, P)
              IN (S.err = "" /\ Held(S.pair.corpus_id, P.street, P.house_num)) =>
                     /\ CreateRecord(S, P).out.status = 409
                     /\ Durable(CreateRecord(S, P), Committed).main = main

\* a create_record refused for a record without house number that is stored
C11_Witness ==
    /\ response.op = "create_record"
    /\ response.status = 409
    /\ response.req.house_num = None
    /\ Held(response.req.corpus_id, response.req.street, None)

\* C12: a house_num of "" is the same value as null: no stored record has
\* house_num "", and creating a record with house_num "" where a stored
\* record of the corpus and street has none is answered 409.
C12_EmptyHouseNumIsNull ==
    /\ \A r \in main : r.house_num # <<>>
    /\ pc = "idle" =>
          /\ \A P \in MainCreatePayloads :
                (P.house_num = <<>> /\ Held(P.corpus_id, P.street, None)) =>
                    create_record(Committed, P).out.status = 409
          /\ \A P \in CreatePayloads :
                LET S == ResolveForCreate(FreshSession, P)
                IN (/\ P.house_num = <<>> /\ S.err = ""
                    /\ Held(S.pair.corpus_id, P.street, None)) =>
                       CreateRecord(S, P).out.status = 409

\* C13: no two stored records share (corpus_id, street, house_num), None
\* counting as a value of house_num like any other.
C13_NaturalKeyUnique ==
    \A a, b \in main : SameKey(a, b) => a = b

\* The step that answers a request of handler op.
Answers(op) == pc = "idle" /\ pc' = "closing" /\ response'.op = op

\* The stored records with their status left out.
Unflagged(rows) ==
    {[id |-> r.id, corpus_id |-> r.corpus_id, street |-> r.street,
      house_num |-> r.house_num] : r \in rows}

\* The corpus a bulk request names, by id or by the names.
Names(req, corpus_id) ==
    \E k \in corpuses, c \in cities :
        /\ k.id = corpus_id /\ k.city_id = c.id
        /\ IF (req.city_id = NoInt \/ req.corpus_id = NoInt)
              /\ req.city_name # None /\ req.corpus_name # None
           THEN c.name = req.city_name /\ k.name = req.corpus_name
           ELSE c.id = req.city_id /\ k.id = req.corpus_id

BulkStep ==
    Answers("bulk_status_change") =>
        IF response'.status = 200
        THEN /\ Names(response'.req, response'.body.corpus_id)
             /\ \A r \in main' :
                    r.corpus_id = response'.body.corpus_id =>
                        r.status = response'.req.status
             /\ response'.body.updated =
                    Cardinality({r \in main : r.corpus_id = response'.body.corpus_id})
             /\ Cardinality(main') = Cardinality(main)
             /\ Unflagged(main') = Unflagged(main)
             /\ \A r \in main : r.corpus_id # response'.body.corpus_id => r \in main'
        ELSE main' = main

\* C14: a bulk status change that succeeds leaves every record of the named
\* corpus with the requested status, answers the number of records of that
\* corpus and touches nothing else; one that fails changes no record.
C14_BulkAllOrNothing == [][BulkStep]_vars

\* a bulk change that disabled the two records of a corpus
C14_Witness ==
    /\ response.op = "bulk_status_change"
    /\ response.status = 200
    /\ response.body.updated = 2
    /\ ~ response.req.status
    /\ \A r \in main : ~ r.status

CorpusStep15 ==
    (/\ Answers("delete_corpus")
     /\ \E r \in main : r.corpus_id = response'.req.corpus_id)
        => /\ response'.status # 204
           /\ corpuses' = corpuses
           /\ main' = main

\* C15: deleting a corpus that owns a record is rejected, and the corpus and
\* its records stay.
C15_OwningCorpusKept == [][CorpusStep15]_vars

\* The city has a corpus, or a record under one of its corpuses.
Dependents(city_id) ==
    \/ \E k \in corpuses : k.city_id = city_id
    \/ \E r \in main, k \in corpuses : r.corpus_id = k.id /\ k.city_id = city_id

CityStep16 ==
    Answers("delete_city") =>
        LET id == response'.req.city_id
            force == response'.req.force
            known == \E c \in cities : c.id = id
        IN /\ (known /\ Dependents(id) /\ ~ force) =>
                  /\ response'.status = 409
                  /\ cities' = cities /\ corpuses' = corpuses /\ main' = main
           /\ (known /\ ~ \E c \in cities' : c.id = id) => (force \/ ~ Dependents(id))
           /\ (known /\ (force \/ ~ Dependents(id))) =>
                  /\ response'.status = 204
                  /\ cities' = {c \in cities : c.id # id}
                  /\ corpuses' = {k \in corpuses : k.city_id # id}
                  /\ main' = {r \in main :
                                 ~ \E k \in corpuses : k.id = r.corpus_id /\ k.city_id = id}
           /\ ~ known => cities' = cities /\ corpuses' = corpuses /\ main' = main

\* C16: deleting a city that has a corpus or a record without force is answered
\* 409 and changes nothing; the city goes only when force is set or it has no
\* dependents, and then its corpuses and records go with it.
C16_CityDeleteGuarded == [][CityStep16]_vars

\* a delete without force refused for a city whose corpus owns a record
C16_Witness ==
    /\ response.op = "delete_city"
    /\ response.status = 409
    /\ ~ response.req.force
    /\ \E k \in corpuses, r \in main :
           k.city_id = response.req.city_id /\ r.corpus_id = k.id

====
